---- MODULE Spec2Model ----
(***************************************************************************)
(* Model of yini::Parser, yini::Section and yini::Value (include/yini.hpp). *)
(*                                                                         *)
(* A std::string is a sequence of one-character strings, indexed from 1;   *)
(* std::string::npos is 0.  A Value is a pair <<tag, payload>>.  A Section  *)
(* tree is a function from the paths of the sections that exist (the root   *)
(* is the empty path) to the key -> Value map of that section.             *)
(*                                                                         *)
(* A local of the C++ code that is used more than once is the parameter of  *)
(* the operator that models the rest of the function.                      *)
(***************************************************************************)
EXTENDS Integers, Sequences, FiniteSets, TLC

\* ------------------------------------------------------------------------
\* std::string helpers
\* ------------------------------------------------------------------------

npos == 0

\* the smallest member of a non-empty set of integers
SetMin(S) == CHOOSE x \in S : \A y \in S : x <= y

\* the largest member of a non-empty set of integers
SetMax(S) == CHOOSE x \in S : \A y \in S : x >= y

\* the first of the matching positions, npos without one
FirstOrNpos(hits) == IF hits = {} THEN npos ELSE SetMin(hits)

\* str.substr(pos) with a 1-based pos
Tail_from(str, pos) == SubSeq(str, pos, Len(str))

\* str.find(pat, from): first index >= from at which pat occurs, else npos
find(str, pat, from) ==
    FirstOrNpos({i \in from..(Len(str) - Len(pat) + 1) :
                    SubSeq(str, i, i + Len(pat) - 1) = pat})

\* the characters of " \t\r\n"
Whitespace == {" ", "\t", "\r", "\n"}

\* tolower that leaves every character as it is
tolower_nothing(c) == c

\* ::tolower on one character (C locale)
tolower_char(c) ==
    CASE c = "A" -> "a" [] c = "B" -> "b" [] c = "C" -> "c" [] c = "D" -> "d"
      [] c = "E" -> "e" [] c = "F" -> "f" [] c = "G" -> "g" [] c = "H" -> "h"
      [] c = "I" -> "i" [] c = "J" -> "j" [] c = "K" -> "k" [] c = "L" -> "l"
      [] c = "M" -> "m" [] c = "N" -> "n" [] c = "O" -> "o" [] c = "P" -> "p"
      [] c = "Q" -> "q" [] c = "R" -> "r" [] c = "S" -> "s" [] c = "T" -> "t"
      [] c = "U" -> "u" [] c = "V" -> "v" [] c = "W" -> "w" [] c = "X" -> "x"
      [] c = "Y" -> "y" [] c = "Z" -> "z" [] OTHER -> c

\* std::transform(str.begin(), str.end(), str.begin(), ::tolower)
tolower(str) == [i \in 1..Len(str) |-> tolower_char(str[i])]

\* str.substr(start, end - start + 1) over the positions find_first_not_of
\* and find_last_not_of choose among, "" without one
trim_to(str, keep) ==
    IF keep = {} THEN <<>> ELSE SubSeq(str, SetMin(keep), SetMax(keep))

\* Parser::trim
trim(str) == trim_to(str, {i \in 1..Len(str) : str[i] \notin Whitespace})

RECURSIVE remove_multiline_loop(_, _)

\* remove_comment_at with the search restarted at the front of the text
\* after a removal (a slip in the search position)
remove_comment_rescan(result, s, e) ==
    IF e = npos THEN SubSeq(result, 1, s - 1)
    ELSE remove_multiline_loop(SubSeq(result, 1, s - 1) \o Tail_from(result, e + 2), 1)

\* the body of the loop of remove_multiline_comments for the comment that
\* opens at s and closes at e
remove_comment_at(result, s, e) ==
    IF e = npos THEN SubSeq(result, 1, s - 1)
    ELSE remove_multiline_loop(SubSeq(result, 1, s - 1) \o Tail_from(result, e + 2), s)

\* the loop of remove_multiline_comments once find("/*", start) returned s
remove_multiline_found(result, s) ==
    IF s = npos THEN result
    ELSE remove_comment_at(result, s, find(result, <<"*", "/">>, s + 2))

\* the loop of Parser::remove_multiline_comments, from search position start
remove_multiline_loop(result, start) ==
    remove_multiline_found(result, find(result, <<"/", "*">>, start))

\* Parser::remove_multiline_comments
remove_multiline_comments(content) == remove_multiline_loop(content, 1)

\* line.substr(0, comment_pos), the line itself for npos
cut_at(line, comment_pos) ==
    IF comment_pos # npos THEN SubSeq(line, 1, comment_pos - 1) ELSE line

\* Parser::remove_line_comments
remove_line_comments(line) == cut_at(line, find(line, <<"/", "/">>, 1))

RECURSIVE getline_all(_, _)

\* the pieces of text when its first delimiter is at d
getline_split(text, delim, d) ==
    IF d = npos THEN <<text>>
    ELSE <<SubSeq(text, 1, d - 1)>> \o getline_all(Tail_from(text, d + 1), delim)

\* the pieces successive std::getline(stream, item, delim) calls return:
\* a final delimiter does not open one more (empty) piece
getline_all(text, delim) ==
    IF text = <<>> THEN <<>> ELSE getline_split(text, delim, find(text, <<delim>>, 1))

\* the length of the run of carets before the first position in other
caret_run(line, other) == IF other = {} THEN Len(line) ELSE SetMin(other) - 1

\* Parser::count_carets
count_carets(line) == caret_run(line, {i \in 1..Len(line) : line[i] # "^"})

\* ------------------------------------------------------------------------
\* numbers: std::stoi, std::stod, std::to_string
\* ------------------------------------------------------------------------

\* INT_MAX and INT_MIN of the Integer variant (int, 32 bits)
INT_MAX == 2147483647
INT_MIN == (-2147483647) - 1

Digits == {"0", "1", "2", "3", "4", "5", "6", "7", "8", "9"}

DigitVal(c) ==
    CASE c = "0" -> 0 [] c = "1" -> 1 [] c = "2" -> 2 [] c = "3" -> 3
      [] c = "4" -> 4 [] c = "5" -> 5 [] c = "6" -> 6 [] c = "7" -> 7
      [] c = "8" -> 8 [] c = "9" -> 9

DigitChar(d) ==
    CASE d = 0 -> "0" [] d = 1 -> "1" [] d = 2 -> "2" [] d = 3 -> "3"
      [] d = 4 -> "4" [] d = 5 -> "5" [] d = 6 -> "6" [] d = 7 -> "7"
      [] d = 8 -> "8" [] d = 9 -> "9"

RECURSIVE Pow10(_)
Pow10(k) == IF k = 0 THEN 1 ELSE 10 * Pow10(k - 1)

\* the first of the positions in rest, the end of str without one
first_or_end(str, rest) == IF rest = {} THEN Len(str) + 1 ELSE SetMin(rest)

\* the characters isspace() accepts in the "C" locale: space, \t, \n, \r,
\* \f and the vertical tab (0x0B), which is written as the character itself
IsSpace == {" ", "\t", "\n", "\r", "\f", ""}

\* index of the first character at or after i that isspace() rejects, as
\* strtol and strtod skip leading whitespace
SkipSpace(str, i) == first_or_end(str, {j \in i..Len(str) : str[j] \notin IsSpace})

\* number of consecutive decimal digits of str starting at index i
DigitRun(str, i) == first_or_end(str, {j \in i..Len(str) : str[j] \notin Digits}) - i

\* str has a sign character at index i
SignAt(str, i) == i <= Len(str) /\ str[i] \in {"+", "-"}

\* str has a minus sign at index i
MinusAt(str, i) == i <= Len(str) /\ str[i] = "-"

\* the value of the digit run str[i .. i+n-1] negated, or 1 when it is below
\* INT_MIN (the accumulation is done on the negative side, which holds one
\* more value than the positive side)
RECURSIVE NegAccumulate(_, _, _, _)
NegAccumulate(str, i, n, acc) ==
    IF n = 0 THEN acc
    ELSE IF acc < (INT_MIN + DigitVal(str[i]) + 9) \div 10 THEN 1
    ELSE NegAccumulate(str, i + 1, n - 1, acc * 10 - DigitVal(str[i]))

\* stoi_result with a range that is symmetric about zero: INT_MIN is out of
\* range
stoi_result_symmetric(neg, n, acc) ==
    IF n = 0 THEN [ok |-> FALSE, val |-> 0, what |-> "invalid_argument"]
    ELSE IF acc = 1 \/ acc = INT_MIN
    THEN [ok |-> FALSE, val |-> 0, what |-> "out_of_range"]
    ELSE [ok |-> TRUE, val |-> IF neg THEN acc ELSE 0 - acc, what |-> "none"]

\* what std::stoi returns or throws for n digits of negated value acc:
\* invalid_argument without a digit, out_of_range outside int
stoi_result(neg, n, acc) ==
    IF n = 0 THEN [ok |-> FALSE, val |-> 0, what |-> "invalid_argument"]
    ELSE IF acc = 1 \/ (~neg /\ acc = INT_MIN)
    THEN [ok |-> FALSE, val |-> 0, what |-> "out_of_range"]
    ELSE [ok |-> TRUE, val |-> IF neg THEN acc ELSE 0 - acc, what |-> "none"]

\* std::stoi on the digit run of n digits at i1
stoi_run(str, neg, i1, n) == stoi_result(neg, n, NegAccumulate(str, i1, n, 0))

\* std::stoi from the optional sign at i0 on
stoi_signed(str, i0) ==
    stoi_run(str, MinusAt(str, i0), IF SignAt(str, i0) THEN i0 + 1 ELSE i0,
             DigitRun(str, IF SignAt(str, i0) THEN i0 + 1 ELSE i0))

\* std::stoi(str): leading whitespace, optional sign, the longest digit run
stoi(str) == stoi_signed(str, SkipSpace(str, 1))

\* std::to_string(int)
RECURSIVE to_string_int(_)
to_string_int(n) ==
    IF n >= 0
    THEN IF n < 10 THEN <<DigitChar(n)>>
         ELSE to_string_int(n \div 10) \o <<DigitChar(n % 10)>>
    ELSE IF n > -10 THEN <<"-", DigitChar(0 - n)>>
    ELSE to_string_int((n + ((10 - (n % 10)) % 10)) \div 10)
         \o <<DigitChar((10 - (n % 10)) % 10)>>

\* A double is <<neg, m, e>>, the number (-1)^neg * m * 10^(-e), kept
\* canonical (m has no factor 10; zero is m = 0, e = 0); it stands for the
\* binary64 value nearest to that number.  With m an int (at most 10
\* significant digits) distinct canonical triples are distinct doubles; a
\* text whose mantissa an int does not hold is beyond these operators.
\* An infinity is m = -1 and a NaN is m = -2, each with its sign.
RECURSIVE Canon(_, _, _)
Canon(neg, m, e) ==
    IF m = 0 THEN <<neg, 0, 0>>
    ELSE IF m % 10 = 0 THEN Canon(neg, m \div 10, e - 1)
    ELSE <<neg, m, e>>

Infinity(neg) == <<neg, -1, 0>>
NotANumber(neg) == <<neg, -2, 0>>

\* the natural number written by the digit run str[i .. i+n-1]
RECURSIVE DigitsValue(_, _, _, _)
DigitsValue(str, i, n, acc) ==
    IF n = 0 THEN acc ELSE DigitsValue(str, i + 1, n - 1, acc * 10 + DigitVal(str[i]))

\* the number written by the exponent digits str[i .. i+n-1]; past 99999
\* the rest is not read, the result being out of range either way
RECURSIVE ExponentValue(_, _, _, _)
ExponentValue(str, i, n, acc) ==
    IF n = 0 \/ acc > 99999 THEN acc
    ELSE ExponentValue(str, i + 1, n - 1, acc * 10 + DigitVal(str[i]))

\* the digit runs a and b have the same length and a is below b as a number
digits_below(a, b) ==
    \E i \in 1..Len(a) :
        /\ DigitVal(a[i]) < DigitVal(b[i])
        /\ \A j \in 1..(i - 1) : a[j] = b[j]

\* the first 17 digits of 2^1024 - 2^970 = 1.797693134862315807...e308, from
\* which on strtod overflows, and of DBL_MIN = 2.2250738585072013...e-308
\* rounded up, below which the result is subnormal
Digits_overflow ==
    <<"1", "7", "9", "7", "6", "9", "3", "1", "3", "4", "8", "6", "2", "3", "1", "5", "8">>
Digits_DBL_MIN ==
    <<"2", "2", "2", "5", "0", "7", "3", "8", "5", "8", "5", "0", "7", "2", "0", "1", "4">>

\* n copies of the character c
Repeat(c, n) == [i \in 1..n |-> c]

\* strtod sets ERANGE, and std::stod throws std::out_of_range, for d: its
\* magnitude is digs17[1].digs17[2..17] * 10^x; a decimal of an int m below
\* DBL_MIN is never a subnormal exactly
stod_checked(d, digs17, x) ==
    IF d[2] # 0 /\ (\/ x > 308
                    \/ x = 308 /\ ~digits_below(digs17, Digits_overflow)
                    \/ x < -308
                    \/ x = -308 /\ digits_below(digs17, Digits_DBL_MIN))
    THEN [ok |-> FALSE, val |-> <<FALSE, 0, 0>>]
    ELSE [ok |-> TRUE, val |-> d]

\* the range check on d, digs being the digits of its m
stod_in_range(d, digs) ==
    stod_checked(d, digs \o Repeat("0", 17 - Len(digs)), Len(digs) - 1 - d[3])

\* what std::stod does with the decimal d it read
stod_ranged(d) == stod_in_range(d, to_string_int(d[2]))

\* std::stod with the exponent digits found: n digits at i, negative if negExp
stod_scaled(str, neg, mant, nFrac, negExp, i, n) ==
    stod_ranged(Canon(neg, mant,
                      IF negExp THEN nFrac + ExponentValue(str, i, n, 0)
                      ELSE nFrac - ExponentValue(str, i, n, 0)))

\* std::stod at the optional exponent sign at i (after 'e' or 'E')
stod_exponent(str, neg, mant, nFrac, i) ==
    stod_scaled(str, neg, mant, nFrac, MinusAt(str, i),
                IF SignAt(str, i) THEN i + 1 ELSE i,
                DigitRun(str, IF SignAt(str, i) THEN i + 1 ELSE i))

\* std::stod after the mantissa, which ends before iExp: an exponent is read
\* when 'e' or 'E' is followed by an optionally signed digit
stod_mantissa(str, neg, mant, nDigits, nFrac, iExp) ==
    IF nDigits = 0 THEN [ok |-> FALSE, val |-> <<FALSE, 0, 0>>]
    ELSE IF iExp <= Len(str) /\ str[iExp] \in {"e", "E"}
    THEN stod_exponent(str, neg, mant, nFrac, iExp + 1)
    ELSE stod_ranged(Canon(neg, mant, nFrac))

\* std::stod after the '.' at iDot: nFrac digits follow it
stod_fraction(str, neg, i1, nInt, iDot, nFrac) ==
    stod_mantissa(str, neg,
                  DigitsValue(str, iDot + 1, nFrac, DigitsValue(str, i1, nInt, 0)),
                  nInt + nFrac, nFrac, iDot + 1 + nFrac)

\* std::stod after the nInt digits at i1
stod_integer(str, neg, i1, nInt) ==
    IF i1 + nInt <= Len(str) /\ str[i1 + nInt] = "."
    THEN stod_fraction(str, neg, i1, nInt, i1 + nInt, DigitRun(str, i1 + nInt + 1))
    ELSE stod_mantissa(str, neg, DigitsValue(str, i1, nInt, 0), nInt, 0, i1 + nInt)

HexDigits ==
    Digits \cup {"a", "b", "c", "d", "e", "f", "A", "B", "C", "D", "E", "F"}

HexVal(c) ==
    CASE c \in Digits -> DigitVal(c)
      [] c \in {"a", "A"} -> 10 [] c \in {"b", "B"} -> 11 [] c \in {"c", "C"} -> 12
      [] c \in {"d", "D"} -> 13 [] c \in {"e", "E"} -> 14 [] c \in {"f", "F"} -> 15

\* number of consecutive hexadecimal digits of str starting at index i
HexRun(str, i) == first_or_end(str, {j \in i..Len(str) : str[j] \notin HexDigits}) - i

\* the natural number written by the hexadecimal digits str[i .. i+n-1]
RECURSIVE HexValue(_, _, _, _)
HexValue(str, i, n, acc) ==
    IF n = 0 THEN acc ELSE HexValue(str, i + 1, n - 1, acc * 16 + HexVal(str[i]))

RECURSIVE Pow2(_)
Pow2(k) == IF k = 0 THEN 1 ELSE 2 * Pow2(k - 1)

RECURSIVE Pow5(_)
Pow5(k) == IF k = 0 THEN 1 ELSE 5 * Pow5(k - 1)

\* the number of bits of h > 0
RECURSIVE BitLength(_)
BitLength(h) == IF h = 0 THEN 0 ELSE 1 + BitLength(h \div 2)

\* h * 2^b with h of bits bits (odd when b < 0) as strtod returns it: from
\* 2^1024 on it overflows, with a bit below 2^-1074 it is a subnormal that
\* is not exact, and both set ERANGE; a subnormal that is exact does not
hex_ranged(neg, h, b, bits) ==
    IF bits + b > 1024 \/ b < -1074 THEN [ok |-> FALSE, val |-> <<FALSE, 0, 0>>]
    ELSE IF b >= 0 THEN [ok |-> TRUE, val |-> Canon(neg, h * Pow2(b), 0)]
    ELSE [ok |-> TRUE, val |-> Canon(neg, h * Pow5(0 - b), 0 - b)]

\* the hexadecimal mantissa h scaled by 2^b
RECURSIVE hex_scaled(_, _, _)
hex_scaled(neg, h, b) ==
    IF h = 0 THEN [ok |-> TRUE, val |-> <<neg, 0, 0>>]
    ELSE IF b < 0 /\ (h % 2) = 0 THEN hex_scaled(neg, h \div 2, b + 1)
    ELSE hex_ranged(neg, h, b, BitLength(h))

\* std::stod with the binary exponent digits found: n digits at i
stod_hex_scaled(str, neg, mant, nFrac, negExp, i, n) ==
    hex_scaled(neg, mant,
               IF negExp THEN 0 - ExponentValue(str, i, n, 0) - 4 * nFrac
               ELSE ExponentValue(str, i, n, 0) - 4 * nFrac)

\* std::stod at the optional sign of the binary exponent at i (after 'p')
stod_hex_exponent(str, neg, mant, nFrac, i) ==
    stod_hex_scaled(str, neg, mant, nFrac, MinusAt(str, i),
                    IF SignAt(str, i) THEN i + 1 ELSE i,
                    DigitRun(str, IF SignAt(str, i) THEN i + 1 ELSE i))

\* std::stod after the hexadecimal mantissa, which ends before iExp
stod_hex_mantissa(str, neg, mant, nFrac, iExp) ==
    IF iExp <= Len(str) /\ str[iExp] \in {"p", "P"}
    THEN stod_hex_exponent(str, neg, mant, nFrac, iExp + 1)
    ELSE hex_scaled(neg, mant, 0 - 4 * nFrac)

\* std::stod after the '.' of a hexadecimal mantissa: nFrac digits follow it
stod_hex_fraction(str, neg, i2, nInt, nFrac) ==
    stod_hex_mantissa(str, neg,
                      HexValue(str, i2 + nInt + 1, nFrac, HexValue(str, i2, nInt, 0)),
                      nFrac, i2 + nInt + 1 + nFrac)

\* std::stod after "0x" and the nInt hexadecimal digits at i2
stod_hex_integer(str, neg, i2, nInt) ==
    IF i2 + nInt <= Len(str) /\ str[i2 + nInt] = "."
    THEN stod_hex_fraction(str, neg, i2, nInt, HexRun(str, i2 + nInt + 1))
    ELSE stod_hex_mantissa(str, neg, HexValue(str, i2, nInt, 0), 0, i2 + nInt)

\* str has at i the three letters of word in either case
word_at(str, i, word) ==
    i + 2 <= Len(str) /\ tolower(SubSeq(str, i, i + 2)) = word

\* str has at i "0x" or "0X" and a hexadecimal mantissa: a digit, or a '.'
\* and a digit; without one strtod converts the "0" alone
hex_at(str, i) ==
    /\ i + 2 <= Len(str)
    /\ str[i] = "0"
    /\ str[i + 1] \in {"x", "X"}
    /\ \/ str[i + 2] \in HexDigits
       \/ str[i + 2] = "." /\ i + 3 <= Len(str) /\ str[i + 3] \in HexDigits

\* std::stod after the sign: "inf" and "nan" in either case, a hexadecimal
\* form, else a decimal form
stod_unsigned(str, neg, i1) ==
    IF word_at(str, i1, <<"i", "n", "f">>) THEN [ok |-> TRUE, val |-> Infinity(neg)]
    ELSE IF word_at(str, i1, <<"n", "a", "n">>) THEN [ok |-> TRUE, val |-> NotANumber(neg)]
    ELSE IF hex_at(str, i1) THEN stod_hex_integer(str, neg, i1 + 2, HexRun(str, i1 + 2))
    ELSE stod_integer(str, neg, i1, DigitRun(str, i1))

\* std::stod from the optional sign at i0 on
stod_signed(str, i0) ==
    stod_unsigned(str, MinusAt(str, i0), IF SignAt(str, i0) THEN i0 + 1 ELSE i0)

\* std::stod(str): leading whitespace, an optional sign, then the longest
\* prefix that is "inf", "nan", a hexadecimal form or digits with an
\* optional '.' and at least one digit, each form with its optional
\* exponent; ok is FALSE when it throws (nothing to convert, or a result
\* out of range)
stod(str) == stod_signed(str, SkipSpace(str, 1))

\* digs, the digits of m, as m * 10^(-e) with 0 < e <= 6 in "%f" form
fixed_fraction(digs, e) ==
    SubSeq(digs, 1, Len(digs) - e) \o <<".">>
    \o SubSeq(digs, Len(digs) - e + 1, Len(digs)) \o Repeat("0", 6 - e)

\* digs, the digits of m, as m * 10^(-e) with 0 < e <= 6 in "%f" form
fixed_digits(digs, e) ==
    fixed_fraction(IF Len(digs) <= e THEN Repeat("0", e + 1 - Len(digs)) \o digs
                   ELSE digs, e)

\* m * 10^(-e) with 0 < e <= 6 in "%f" form, which is exact: the double is
\* nearer to it than half of 10^(-6)
fixed(m, e) == fixed_digits(to_string_int(m), e)

\* m * 10^(-e) with e > 7, or e = 7 and m no odd multiple of 5, rounded to
\* six decimals, p = 10^(e - 6): the double lies on the same side of the
\* rounding boundary as the decimal
rounded(m, p) == fixed(IF (m % p) >= p - (m % p) THEN (m \div p) + 1 ELSE m \div p, 6)

\* floor(log2(n / d)) for n, d > 0
RECURSIVE ilog2(_, _)
ilog2(n, d) ==
    IF n < d THEN ilog2(2 * n, d) - 1
    ELSE IF n >= 2 * d THEN ilog2(n \div 2, d) + 1
    ELSE 0

\* 2^b modulo d
RECURSIVE pow2mod(_, _)
pow2mod(b, d) == IF b = 0 THEN 1 % d ELSE (2 * pow2mod(b - 1, d)) % d

\* the double nearest to n / (2^7 * 5^6) is above it, n no multiple of 5^6:
\* the remainder of n * 2^b by 5^6 is above its half, b the shift that
\* gives the quotient 53 bits
binary_above(n, b) == 2 * (((n % 15625) * pow2mod(b, 15625)) % 15625) > 15625

\* q + 1/2 millionths, n = 2 * q + 1: a double that is this number exactly
\* is rounded to the even neighbour, any other to the side it lies on
tie(q, n) ==
    fixed(IF (n % 15625) = 0 THEN q + (q % 2)
          ELSE IF binary_above(n, 52 - ilog2(n, 15625)) THEN q + 1
          ELSE q, 6)

\* X, a non-empty sequence of the digits 0 .. 9, is below Y as a number
big_less(X, Y) ==
    \/ Len(X) < Len(Y)
    \/ /\ Len(X) = Len(Y)
       /\ \E i \in 1..Len(X) : X[i] < Y[i] /\ \A j \in 1..(i - 1) : X[j] = Y[j]

\* the digits X without a leading zero
big_strip(X) == SubSeq(X, IF Len(X) > 1 /\ X[1] = 0 THEN 2 ELSE 1, Len(X))

\* floor(X / 2)
big_half(X) ==
    big_strip([i \in 1..Len(X) |->
                  (X[i] + (IF i > 1 /\ (X[i - 1] % 2) = 1 THEN 10 ELSE 0)) \div 2])

\* 2 * X
big_double(X) ==
    (IF X[1] >= 5 THEN <<1>> ELSE <<>>)
    \o [i \in 1..Len(X) |->
           ((2 * X[i]) % 10) + (IF i < Len(X) /\ X[i + 1] >= 5 THEN 1 ELSE 0)]

\* X + 1, j the index of the last digit of X other than 9 (0 without one)
big_increment(X, j) ==
    IF j = 0 THEN <<1>> \o [i \in 1..Len(X) |-> 0]
    ELSE [i \in 1..Len(X) |-> IF i < j THEN X[i] ELSE IF i = j THEN X[i] + 1 ELSE 0]

\* X * 2^s
RECURSIVE big_shift_left(_, _)
big_shift_left(X, s) ==
    IF s = 0 \/ X = <<0>> THEN X
    ELSE IF s = 1 THEN big_double(X)
    ELSE big_shift_left(big_shift_left(X, s \div 2), s - (s \div 2))

\* floor(X / 2^s)
RECURSIVE big_shift_right(_, _)
big_shift_right(X, s) ==
    IF s = 0 \/ X = <<0>> THEN X
    ELSE IF s = 1 THEN big_half(X)
    ELSE big_shift_right(big_shift_right(X, s \div 2), s - (s \div 2))

TwoTo53 == <<9, 0, 0, 7, 1, 9, 9, 2, 5, 4, 7, 4, 0, 9, 9, 2>>

\* the double nearest to an integer: X is what is left of it after s
\* halvings, guard the bit shifted out last and sticky whether a bit
\* shifted out before was set; 53 bits are kept, rounded to nearest, ties
\* to even
RECURSIVE round53(_, _, _, _)
round53(X, s, guard, sticky) ==
    IF big_less(X, TwoTo53)
    THEN big_shift_left(IF guard /\ (sticky \/ (X[Len(X)] % 2) = 1)
                        THEN big_increment(X, SetMax({0} \cup {i \in 1..Len(X) : X[i] # 9}))
                        ELSE X, s)
    ELSE round53(big_half(X), s + 1, (X[Len(X)] % 2) = 1, sticky \/ guard)

\* the characters of the digits X, and the digits of the characters digs
digit_chars(X) == [i \in 1..Len(X) |-> DigitChar(X[i])]
digit_values(digs) == [i \in 1..Len(digs) |-> DigitVal(digs[i])]

\* a number of halvings that leaves an integer of n digits 54 bits or more:
\* 2^(3.3219 (n - 1)) <= 10^(n - 1)
coarse_shift(n) == SetMax({0, (((n - 1) * 33219) \div 10000) - 54})

\* round53 on X, Y being X after s halvings
round53_from(X, Y, s) == round53(Y, s, FALSE, s > 0 /\ big_shift_left(Y, s) # X)

\* the double nearest to the integer X
nearest_double(X) ==
    round53_from(X, big_shift_right(X, coarse_shift(Len(X))), coarse_shift(Len(X)))

\* the integer of the digits X times 10^k in "%f" form: the digits of the
\* double nearest to it
whole(X, k) ==
    digit_chars(nearest_double(X \o Repeat(0, k))) \o <<".">> \o Repeat("0", 6)

\* the magnitude of d in "%f" form
to_string_magnitude(m, e) ==
    IF m = -1 THEN <<"i", "n", "f">>
    ELSE IF m = -2 THEN <<"n", "a", "n">>
    ELSE IF e <= 0 THEN whole(digit_values(to_string_int(m)), 0 - e)
    ELSE IF e <= 6 THEN fixed(m, e)
    ELSE IF e = 7 /\ (m % 10) = 5 THEN tie(m \div 10, m \div 5)
    ELSE IF e >= 16 THEN fixed(0, 6)
    ELSE rounded(m, Pow10(e - 6))

\* std::to_string(double), i.e. printf("%f"): the binary value with six
\* digits after the point
to_string_double(d) ==
    (IF d[1] THEN <<"-">> ELSE <<>>) \o to_string_magnitude(d[2], d[3])

\* ------------------------------------------------------------------------
\* yini::Value
\* ------------------------------------------------------------------------

\* the Value constructors: one variant is active, named by the tag
StringValue(str) == <<"string", str>>
IntValue(n) == <<"int", n>>
DoubleValue(d) == <<"double", d>>
BoolValue(b) == <<"bool", b>>
ArrayValue(elems) == <<"array", elems>>

is_string(v) == v[1] = "string"
is_int(v) == v[1] = "int"
is_double(v) == v[1] = "double"
is_bool(v) == v[1] = "bool"
is_array(v) == v[1] = "array"

\* the result of an accessor: a value, or the exception it throws
Returns(x) == [ok |-> TRUE, val |-> x, what |-> "none"]
Throws(msg) == [ok |-> FALSE, val |-> <<>>, what |-> msg]

\* the six boolean keywords of parse_value and the texts as_bool accepts
Str_true == <<"t", "r", "u", "e">>
Str_yes == <<"y", "e", "s">>
Str_on == <<"o", "n">>
Str_false == <<"f", "a", "l", "s", "e">>
Str_no == <<"n", "o">>
Str_off == <<"o", "f", "f">>
Str_1 == <<"1">>

\* Value::as_string
as_string(v) ==
    IF is_string(v) THEN Returns(v[2])
    ELSE IF is_int(v) THEN Returns(to_string_int(v[2]))
    ELSE IF is_double(v) THEN Returns(to_string_double(v[2]))
    ELSE IF is_bool(v) THEN Returns(IF v[2] THEN Str_true ELSE Str_false)
    ELSE Throws("Cannot convert array to string")

\* What static_cast<int> does with a double whose truncated value an int
\* cannot hold, an infinity or a NaN, which is undefined: the x86
\* conversion instruction gives the "integer indefinite" value INT_MIN for
\* each of them, a saturating conversion gives the nearest end of the range
\* and 0 for a NaN.
CastOutcomes == {"indefinite", "saturates"}

\* the truncated value of d is one an int holds
in_int_range(d) ==
    d[2] >= 0 /\ (d[3] >= 0 \/ (d[3] >= -9 /\ d[2] <= INT_MAX \div Pow10(0 - d[3])))

\* the magnitude of d, in int range, truncated toward zero
truncated_magnitude(m, e) ==
    IF e >= 10 THEN 0 ELSE IF e >= 0 THEN m \div Pow10(e) ELSE m * Pow10(0 - e)

\* static_cast<int>(d) for a double in int range: truncation toward zero
truncate(d) ==
    IF d[1] THEN 0 - truncated_magnitude(d[2], d[3]) ELSE truncated_magnitude(d[2], d[3])

\* static_cast<int>(d) outside of the int range
cast_out_of_range(d, cast) ==
    IF cast = "indefinite" THEN INT_MIN
    ELSE IF d[2] = -2 THEN 0
    ELSE IF d[1] THEN INT_MIN
    ELSE INT_MAX

\* static_cast<int>(d); cast is the outcome of the undefined conversion
static_cast_int(d, cast) ==
    IF in_int_range(d) THEN truncate(d) ELSE cast_out_of_range(d, cast)

\* the try block of as_int around std::stoi, r being what stoi did
stoi_or_throw(r) ==
    IF r.ok THEN Returns(r.val) ELSE Throws("Cannot convert string to int")

\* Value::as_int; cast is the outcome of an undefined conversion
as_int(v, cast) ==
    IF is_int(v) THEN Returns(v[2])
    ELSE IF is_double(v) THEN Returns(static_cast_int(v[2], cast))
    ELSE IF is_string(v) THEN stoi_or_throw(stoi(v[2]))
    ELSE Throws("Cannot convert to int")

\* the comparison of the lowered text in as_bool
is_true_text(str) == str = Str_true \/ str = Str_yes \/ str = Str_on \/ str = Str_1

\* Value::as_bool
as_bool(v) ==
    IF is_bool(v) THEN Returns(v[2])
    ELSE IF is_string(v) THEN Returns(is_true_text(tolower(v[2])))
    ELSE IF is_int(v) THEN Returns(v[2] # 0)
    ELSE Throws("Cannot convert to bool")

\* Value::as_array
as_array(v) ==
    IF is_array(v) THEN Returns(v[2]) ELSE Throws("Value is not an array")

\* ------------------------------------------------------------------------
\* Parser::parse_value
\* ------------------------------------------------------------------------

\* What trimmed.front() does on an empty string, which is undefined: a
\* build without library assertions reads the terminating '\0' (no branch
\* matches and the literal becomes Text ""), a build with them aborts.
UBOutcomes == {"reads_nul", "aborts"}

\* the marker parse_value yields when the process is aborted
Aborted == <<"aborted", <<>>>>

\* return Value(std::stod(trimmed)), or the catch (...) that falls through
\* to return Value(trimmed); r is what stod did
double_or_text(r, trimmed) == IF r.ok THEN DoubleValue(r.val) ELSE StringValue(trimmed)

\* return Value(std::stoi(trimmed)), or the catch (...) that falls through
\* to return Value(trimmed); r is what stoi did
int_or_text(r, trimmed) == IF r.ok THEN IntValue(r.val) ELSE StringValue(trimmed)

\* the numeric branch and the fallback of parse_value
parse_number(trimmed) ==
    IF find(trimmed, <<".">>, 1) # npos
    THEN double_or_text(stod(trimmed), trimmed)
    ELSE int_or_text(stoi(trimmed), trimmed)

\* the boolean branch of parse_value on the lowered text, then the numeric
\* branch
parse_keyword(trimmed, lower) ==
    IF lower = Str_true \/ lower = Str_yes \/ lower = Str_on THEN BoolValue(TRUE)
    ELSE IF lower = Str_false \/ lower = Str_no \/ lower = Str_off THEN BoolValue(FALSE)
    ELSE parse_number(trimmed)

\* the boolean branch of parse_value, then the numeric branch
parse_bool_or_number(trimmed) == parse_keyword(trimmed, tolower(trimmed))

\* front() of the text is the character c and back() is d
enclosed(trimmed, c, d) ==
    trimmed # <<>> /\ trimmed[1] = c /\ trimmed[Len(trimmed)] = d

\* trimmed.substr(1, trimmed.length() - 2)
inner(trimmed) == SubSeq(trimmed, 2, Len(trimmed) - 1)

RECURSIVE parse_value(_, _)

\* parse_items that collects the items last to first
parse_items_reversed(kept, ub) ==
    [i \in 1..Len(kept) |-> parse_value(trim(kept[Len(kept) + 1 - i]), ub)]

\* the loop over the items of an array literal: each item that is not
\* empty after trim is parsed
parse_items(kept, ub) == [i \in 1..Len(kept) |-> parse_value(trim(kept[i]), ub)]

\* parse_value after trim
parse_trimmed(trimmed, ub) ==
    IF trimmed = <<>> /\ ub = "aborts" THEN Aborted
    ELSE IF enclosed(trimmed, "'", "'") \/ enclosed(trimmed, "\"", "\"")
    THEN StringValue(inner(trimmed))
    ELSE IF enclosed(trimmed, "[", "]")
    THEN ArrayValue(parse_items(SelectSeq(getline_all(inner(trimmed), ","),
                                          LAMBDA item : trim(item) # <<>>), ub))
    ELSE parse_bool_or_number(trimmed)

\* Parser::parse_value; ub is the outcome of the undefined front() call
parse_value(value_str, ub) == parse_trimmed(trim(value_str), ub)

\* ------------------------------------------------------------------------
\* yini::Section: the tree of sections
\* ------------------------------------------------------------------------

\* an empty values_ map
NoValues == <<>>

\* a default-constructed Section: no values, no subsections
EmptyRoot == [p \in {<<>>} |-> NoValues]

\* the paths path[1..k], k = 0..Len(path): the root and every section on
\* the way to path
Prefixes(path) == {SubSeq(path, 1, k) : k \in 0..Len(path)}

\* the sections of tree directly under the section at path
ChildrenOf(tree, path) ==
    {q \in DOMAIN tree : Len(q) = Len(path) + 1 /\ SubSeq(q, 1, Len(path)) = path}

\* clear that leaves the tree as it is
clear_nothing(tree, path) == tree

\* Section::clear on the section at path: values_ and subsections_ are
\* emptied, so every section below path goes with them
clear(tree, path) ==
    [p \in {q \in DOMAIN tree : ~(Len(q) > Len(path) /\ SubSeq(q, 1, Len(path)) = path)} |->
        IF p = path THEN NoValues ELSE tree[p]]

\* Section::section applied along section_path from the root, as
\* Parser::navigate_to_section does: each missing section is created empty
navigate_to_section(tree, section_path) ==
    [p \in DOMAIN tree \cup Prefixes(section_path) |->
        IF p \in DOMAIN tree THEN tree[p] ELSE NoValues]

\* Section::operator[] followed by Value's assignment: values_[key] = v
PutValue(values, key, v) ==
    [k \in DOMAIN values \cup {key} |-> IF k = key THEN v ELSE values[k]]

\* (*navigate_to_section(path))[key] = v
SetValue(tree, path, key, v) ==
    [navigate_to_section(tree, path) EXCEPT ![path] = PutValue(@, key, v)]

\* Section::operator[] on the section at path, reached through
\* Section::section: an absent key is inserted with a default Value, the
\* empty string
subscript(tree, path, key) ==
    IF path \in DOMAIN tree /\ key \in DOMAIN tree[path] THEN tree
    ELSE SetValue(tree, path, key, StringValue(<<>>))

\* Section::has_value and Section::has_section on the section at path
has_value(tree, path, key) == key \in DOMAIN tree[path]
has_section(tree, path, name) == Append(path, name) \in DOMAIN tree

\* what a lookup did: it returned x, or it threw std::out_of_range
Returned(x) == <<"returned", x>>
OutOfRange == <<"out_of_range", <<>>>>

\* at that answers a missing key with a default-constructed Value, as
\* operator[] does
at_default(tree, path, key) ==
    IF key \in DOMAIN tree[path] THEN Returned(tree[path][key])
    ELSE Returned(StringValue(<<>>))

\* Section::at on the section at path: values_.find(key), the Value found
\* or std::out_of_range
at(tree, path, key) ==
    IF key \in DOMAIN tree[path] THEN Returned(tree[path][key]) ELSE OutOfRange

\* Section::get_section on the section at path: subsections_.find(name),
\* the child found (named by its path) or std::out_of_range
get_section(tree, path, name) ==
    IF Append(path, name) \in DOMAIN tree THEN Returned(Append(path, name)) ELSE OutOfRange

\* ------------------------------------------------------------------------
\* Parser::parse_string
\* ------------------------------------------------------------------------

\* std::vector<std::string>::resize(n): truncates, or appends empty strings
resize(section_stack, n) ==
    IF n <= Len(section_stack) THEN SubSeq(section_stack, 1, n)
    ELSE section_stack \o [i \in 1..(n - Len(section_stack)) |-> <<>>]

\* the state of a parse_string call: the tree, the local section_stack and
\* line_number, and how the call ended ("running" while in the loop)
ParseState(tree, stack, n, st, msg) ==
    [root |-> tree, section_stack |-> stack, line_number |-> n,
     status |-> st, what |-> msg]

\* throw std::runtime_error(msg) inside the loop of parse_string
throw(ps, msg) == [ps EXCEPT !.status = "error", !.what = msg]

\* Section* target = navigate_to_section(section_stack);
\* (*target)[key] = v, v being what parse_value(value_str) did
store_value(ps, key, v) ==
    IF v = Aborted
    THEN [ps EXCEPT !.status = "aborted",
                    !.root = navigate_to_section(ps.root, ps.section_stack)]
    ELSE [ps EXCEPT !.root = SetValue(ps.root, ps.section_stack, key, v)]

\* the key-value branch of parse_string once key and value_str are cut out
store_pair(ps, key, value_str, ub) ==
    IF key = <<>> THEN throw(ps, "Empty key")
    ELSE store_value(ps, key, parse_value(value_str, ub))

\* the key-value branch with a line without '=' passed over in silence
parse_assignment_skips_invalid(ps, line, equals_pos, ub) ==
    IF equals_pos = npos THEN ps
    ELSE store_pair(ps, trim(SubSeq(line, 1, equals_pos - 1)),
                    trim(Tail_from(line, equals_pos + 1)), ub)

\* the key-value branch of parse_string, equals_pos being line.find('=')
parse_assignment(ps, line, equals_pos, ub) ==
    IF equals_pos = npos THEN throw(ps, "Invalid line format")
    ELSE store_pair(ps, trim(SubSeq(line, 1, equals_pos - 1)),
                    trim(Tail_from(line, equals_pos + 1)), ub)

\* the section branch keeping the name of the open section of the header's
\* depth, when there is one, instead of taking the header's name
parse_content_line_keeps_name(ps, line, caret_count, ub) ==
    IF caret_count > 0
    THEN [ps EXCEPT !.section_stack =
                        IF caret_count <= Len(@) THEN SubSeq(@, 1, caret_count)
                        ELSE Append(resize(@, caret_count - 1),
                                    trim(Tail_from(line, caret_count + 1)))]
    ELSE parse_assignment(ps, line, find(line, <<"=">>, 1), ub)

\* the section branch creating the section its header names at once
parse_content_line_creates_section(ps, line, caret_count, ub) ==
    IF caret_count > 0
    THEN [ps EXCEPT !.section_stack =
                        Append(resize(@, caret_count - 1),
                               trim(Tail_from(line, caret_count + 1))),
                    !.root =
                        navigate_to_section(@,
                            Append(resize(ps.section_stack, caret_count - 1),
                                   trim(Tail_from(line, caret_count + 1))))]
    ELSE parse_assignment(ps, line, find(line, <<"=">>, 1), ub)

\* the section branch of parse_string for caret_count > 0, else the
\* key-value branch
parse_content_line(ps, line, caret_count, ub) ==
    IF caret_count > 0
    THEN [ps EXCEPT !.section_stack =
                        Append(resize(@, caret_count - 1),
                               trim(Tail_from(line, caret_count + 1)))]
    ELSE parse_assignment(ps, line, find(line, <<"=">>, 1), ub)

\* the body of the loop of parse_string on the cleaned line
parse_clean_line(ps, line, ub) ==
    IF line = <<>> THEN ps
    ELSE parse_content_line(ps, line, count_carets(line), ub)

\* one iteration of the while loop of parse_string on the line getline read
parse_line(ps, raw, ub) ==
    parse_clean_line([ps EXCEPT !.line_number = @ + 1],
                     trim(remove_line_comments(raw)), ub)

RECURSIVE parse_lines(_, _, _, _)

\* the loop of parse_string after the iteration on line i left it in next:
\* it ends at the first line that throws
continue_lines(next, lines, i, ub) ==
    IF next.status # "running" THEN next ELSE parse_lines(next, lines, i + 1, ub)

\* the while loop of parse_string from line i on
parse_lines(ps, lines, i, ub) ==
    IF i > Len(lines) THEN [ps EXCEPT !.status = "ok"]
    ELSE continue_lines(parse_line(ps, lines[i], ub), lines, i, ub)

\* Parser::parse_string on an instance whose tree is tree
parse_string(tree, content, ub) ==
    parse_lines(ParseState(clear(tree, <<>>), <<>>, 0, "running", "none"),
                getline_all(remove_multiline_comments(content), "\n"), 1, ub)

\* ------------------------------------------------------------------------
\* Parser::write_string
\* ------------------------------------------------------------------------

RECURSIVE write_value(_)

\* the loop of write_value over the elements of an array, from element i
RECURSIVE write_items(_, _)
write_items(arr, i) ==
    IF i > Len(arr) THEN <<>>
    ELSE (IF i > 1 THEN <<",", " ">> ELSE <<>>) \o write_value(arr[i]) \o write_items(arr, i + 1)

\* Parser::write_value
write_value(value) ==
    IF is_string(value) THEN <<"'">> \o value[2] \o <<"'">>
    ELSE IF is_bool(value) THEN (IF value[2] THEN Str_true ELSE Str_false)
    ELSE IF is_array(value) THEN <<"[">> \o write_items(value[2], 1) \o <<"]">>
    ELSE as_string(value).val

\* the order in which the loop of write_section iterates values_ (map =
\* "values") or subsections_ (map = "sections") of the section at path: the
\* C++ library leaves it open, each unordered_map having an order of its
\* own; order gives, for every map of the tree, its names in the order used
IterationOrder(order, path, map) == order[<<path, map>>]

\* the section header write_section emits for a section other than the root
write_header(path, indent_level) ==
    IF path # <<>>
    THEN Repeat(" ", indent_level * 4) \o Repeat("^", indent_level + 1)
         \o <<" ">> \o path[Len(path)] \o <<"\n">>
    ELSE <<>>

\* the loop of write_section over values_, from the i-th key
RECURSIVE write_values(_, _, _, _)
write_values(values, keys, value_indent, i) ==
    IF i > Len(keys) THEN <<>>
    ELSE Repeat(" ", value_indent * 4) \o keys[i] \o <<" ", "=", " ">>
         \o write_value(values[keys[i]]) \o <<"\n">>
         \o write_values(values, keys, value_indent, i + 1)

RECURSIVE write_section(_, _, _, _)

\* the loop of write_section over subsections_, from the i-th name
RECURSIVE write_subsections(_, _, _, _, _, _)
write_subsections(tree, path, names, sub_indent, order, i) ==
    IF i > Len(names) THEN <<>>
    ELSE (IF path # <<>> \/ i > 1 THEN <<"\n">> ELSE <<>>)
         \o write_section(tree, Append(path, names[i]), sub_indent, order)
         \o write_subsections(tree, path, names, sub_indent, order, i + 1)

\* Parser::write_section for the section at path
write_section(tree, path, indent_level, order) ==
    write_header(path, indent_level)
    \o write_values(tree[path], IterationOrder(order, path, "values"),
                    indent_level + (IF path = <<>> THEN 0 ELSE 1), 1)
    \o write_subsections(tree, path, IterationOrder(order, path, "sections"),
                         indent_level + (IF path = <<>> THEN 0 ELSE 1), order, 1)

\* the unordered_maps of tree: values_ and subsections_ of every section
MapsOf(tree) == (DOMAIN tree) \X {"values", "sections"}

\* the names the map m of tree holds: keys, or names of subsections
NamesIn(tree, m) ==
    IF m[2] = "values" THEN DOMAIN tree[m[1]]
    ELSE {q[Len(q)] : q \in ChildrenOf(tree, m[1])}

\* the orders an iteration over a map holding the names in S can take
Orders(S) == {f \in [1..Cardinality(S) -> S] : \A x \in S : \E i \in 1..Cardinality(S) : f[i] = x}

RECURSIVE IterationOrders(_, _)

\* the orders of the maps in maps, the one of m chosen independently of
\* the others
OrdersWith(tree, maps, m) ==
    {f @@ (m :> o) : f \in IterationOrders(tree, maps \ {m}),
                     o \in Orders(NamesIn(tree, m))}

\* an order for each of the maps in maps
IterationOrders(tree, maps) ==
    IF maps = {} THEN {<<>>} ELSE OrdersWith(tree, maps, CHOOSE m \in maps : TRUE)

\* the orders in which a write_string call can iterate the maps of tree
MapOrders(tree) == IterationOrders(tree, MapsOf(tree))

\* Parser::write_string
write_string(tree, order) == write_section(tree, <<>>, 0, order)

\* ------------------------------------------------------------------------
\* bounds and input sets
\* ------------------------------------------------------------------------

\* the longest input of SpecLines, in lines
MaxLines == 4

\* the longest input of SpecChars, in characters
MaxChars == 6

\* the largest tree AssignValue and CreateSection build (properties plus
\* sections below the root)
MaxTree == 2

\* the integers of SpecInteger besides the ends of the int range
MaxInt == 30

\* the lines the inputs of SpecLines are made of
Line_kv == <<"k", " ", "=", " ", "1">>
Line_a == <<"^", " ", "a">>
Line_b == <<"^", "^", " ", "b">>
Line_c == <<"^", "^", "^", " ", "c">>
Line_d == <<"^", " ", "d">>
Line_e == <<"^", "^", " ", "e">>
Line_bad == <<"b", "a", "d">>
Line_nokey == <<"=", " ", "2">>
Line_novalue == <<"m", " ", "=">>
Line_open == <<"/", "*", " ", "x">>
Line_close == <<"*", "/", " ", "k", " ", "=", " ", "2", " ", "/", "/", " ", "y">>

LineSet == {Line_kv, Line_a, Line_b, Line_c, Line_d, Line_e, Line_bad, Line_nokey,
            Line_novalue, Line_open, Line_close}

\* the lines joined by newlines
RECURSIVE JoinLines(_)
JoinLines(lines) ==
    IF lines = <<>> THEN <<>>
    ELSE IF Len(lines) = 1 THEN lines[1]
    ELSE lines[1] \o <<"\n">> \o JoinLines(Tail(lines))

\* every text of 1 .. MaxLines lines of LineSet
LineInputs == {JoinLines(ls) : ls \in UNION {[1..n -> LineSet] : n \in 1..MaxLines}}

\* the characters the inputs of SpecChars are made of
CharSet == {"/", "*", "\n", "k", "="}

\* the comment example of the specification
CommentExample ==
    <<"k", " ", "=", " ", "1", " ", "/", "/", " ", "t", "r", "a", "i", "l", "i", "n", "g", "\n",
      "/", "*", " ", "b", "l", "o", "c", "k", "\n",
      "s", "p", "a", "n", "n", "i", "n", "g", " ", "*", "/", " ", "m", " ", "=", " ", "2">>

\* every text of at most MaxChars characters of CharSet, and the example
CharInputs == UNION {[1..n -> CharSet] : n \in 0..MaxChars} \cup {CommentExample}

\* the texts ParseString is called with in Spec
Inputs == {Line_kv,
           JoinLines(<<Line_a, Line_kv>>),
           JoinLines(<<Line_a, Line_b, Line_close>>),
           JoinLines(<<Line_kv, Line_bad>>),
           JoinLines(<<Line_a, Line_novalue>>)}

\* the names, keys and values AssignValue and CreateSection use in Spec
Name_a == <<"a">>
Name_b == <<"b">>
Key_k == <<"k">>
AssignPaths == {<<>>, <<Name_a>>, <<Name_a, Name_b>>}
AssignKeys == {Key_k}
AssignValues == {StringValue(<<"x">>), IntValue(7), DoubleValue(<<FALSE, 5, 1>>),
                 ArrayValue(<<IntValue(1), StringValue(<<"x">>)>>),
                 ArrayValue(<<ArrayValue(<<IntValue(1), IntValue(2)>>)>>)}

\* properties plus sections below the root
TreeSize(tree) ==
    Cardinality(DOMAIN tree) - 1
    + Cardinality(UNION {{<<q, k>> : k \in DOMAIN tree[q]} : q \in DOMAIN tree})

\* ------------------------------------------------------------------------
\* state
\* ------------------------------------------------------------------------

VARIABLES
    root,         \* Parser::root_
    content,      \* the text of the pending or last parse_string call
    status,       \* how the last parse_string call ended
    line_number,  \* line_number of parse_string when the call ended
    what,         \* the message of the ParseError of the last call
    out,          \* the text the last write_string call returned
    op,           \* the last operation on the Parser
    lookup,       \* the last read-only lookup on a Section, and what it did
    literal,      \* a literal text
    number,       \* the int an Integer Value was constructed from
    value,        \* a Value
    result,       \* the last accessor called on value, and what it returned or threw
    vop           \* how value was obtained

vars == <<root, content, status, line_number, what, out, op, lookup,
          literal, number, value, result, vop>>

parser_vars == <<root, content, status, line_number, what, out, op, lookup>>
value_vars == <<literal, number, value, result, vop>>

\* no lookup made yet
NoLookup == <<"none", <<>>, <<>>, <<"none", <<>>>>>>

\* Parser() = default
InitParser ==
    /\ root = EmptyRoot
    /\ content = <<>>
    /\ status = "none"
    /\ line_number = 0
    /\ what = "none"
    /\ out = <<>>
    /\ op = "new"
    /\ lookup = NoLookup

\* no accessor called yet
NoResult == <<"none", Returns(<<>>)>>

\* Value(): data_ holds an empty string
InitValue ==
    /\ literal = <<>>
    /\ number = 0
    /\ value = StringValue(<<>>)
    /\ result = NoResult
    /\ vop = "new"

Init == InitParser /\ InitValue

\* ------------------------------------------------------------------------
\* operations on the Parser
\* ------------------------------------------------------------------------

\* the Parser after a parse_string call that ended as r records
Ended(r) ==
    /\ root' = r.root
    /\ status' = r.status
    /\ line_number' = r.line_number
    /\ what' = r.what

\* parser.parse_string(c); an aborted process takes no further step
Parse(c, ub, name) ==
    /\ status # "aborted"
    /\ Ended(parse_string(root, c, ub))
    /\ content' = c
    /\ op' = name
    /\ UNCHANGED <<out, lookup, value_vars>>

\* parse_string on one of the texts of Inputs
ParseString == \E c \in Inputs, ub \in UBOutcomes : Parse(c, ub, "parsed")

\* parse_string on the text write_string returned, as the writer tests do
Reparse == op = "written" /\ \E ub \in UBOutcomes : Parse(out, ub, "reparsed")

\* parser.section(..).section(..)[key] = v: operator[] and then the
\* assignment to the Value it returned
AssignValue ==
    /\ status # "aborted"
    /\ \E path \in AssignPaths, key \in AssignKeys, v \in AssignValues :
          /\ TreeSize(SetValue(root, path, key, v)) <= MaxTree
          /\ root' = SetValue(root, path, key, v)
    /\ op' = "assigned"
    /\ UNCHANGED <<content, status, line_number, what, out, lookup, value_vars>>

\* parser.section(..).section(..): the sections are created on access
CreateSection ==
    /\ status # "aborted"
    /\ \E path \in AssignPaths :
          /\ path \notin DOMAIN root
          /\ TreeSize(navigate_to_section(root, path)) <= MaxTree
          /\ root' = navigate_to_section(root, path)
    /\ op' = "assigned"
    /\ UNCHANGED <<content, status, line_number, what, out, lookup, value_vars>>

\* parser.section(..).section(..)[key] with nothing assigned, as a read of
\* the Value does: operator[] inserts the key when the section lacks it
Subscript ==
    /\ status # "aborted"
    /\ \E path \in AssignPaths, key \in AssignKeys :
          /\ TreeSize(subscript(root, path, key)) <= MaxTree
          /\ root' = subscript(root, path, key)
    /\ op' = "subscripted"
    /\ UNCHANGED <<content, status, line_number, what, out, lookup, value_vars>>

\* section.clear() on a section of the tree, the root included
Clear ==
    /\ status # "aborted"
    /\ \E path \in DOMAIN root : root' = clear(root, path)
    /\ op' = "cleared"
    /\ UNCHANGED <<content, status, line_number, what, out, lookup, value_vars>>

\* parser.write_string()
WriteString ==
    /\ status # "aborted"
    /\ \E order \in MapOrders(root) : out' = write_string(root, order)
    /\ op' = "written"
    /\ UNCHANGED <<root, content, status, line_number, what, lookup, value_vars>>

Next == ParseString \/ Reparse \/ AssignValue \/ Subscript \/ CreateSection \/ Clear
        \/ WriteString

Spec == Init /\ [][Next]_vars

\* parse_string called once on a new Parser, for every text of LineInputs
InitLines == InitValue /\ InitParser!1 /\ content \in LineInputs
             /\ status = "none" /\ line_number = 0 /\ what = "none"
             /\ out = <<>> /\ op = "new" /\ lookup = NoLookup

\* parse_string on the pending text of a new Parser
ParseContent == op = "new" /\ \E ub \in UBOutcomes : Parse(content, ub, "parsed")

NextText == ParseContent

SpecLines == InitLines /\ [][NextText]_vars

\* parse_string called once on a new Parser, for every text of CharInputs
InitChars == InitValue /\ InitParser!1 /\ content \in CharInputs
             /\ status = "none" /\ line_number = 0 /\ what = "none"
             /\ out = <<>> /\ op = "new" /\ lookup = NoLookup

SpecChars == InitChars /\ [][NextText]_vars

\* ------------------------------------------------------------------------
\* operations on a Value
\* ------------------------------------------------------------------------

\* the upper-case letter of a lower-case letter of the boolean keywords
Upper(c) ==
    CASE c = "t" -> "T" [] c = "r" -> "R" [] c = "u" -> "U" [] c = "e" -> "E"
      [] c = "y" -> "Y" [] c = "s" -> "S" [] c = "o" -> "O" [] c = "n" -> "N"
      [] c = "f" -> "F" [] c = "a" -> "A" [] c = "l" -> "L"

\* word in every mix of lower and upper case
Spellings(word) ==
    {[i \in 1..Len(word) |-> IF m[i] THEN Upper(word[i]) ELSE word[i]] :
        m \in [1..Len(word) -> BOOLEAN]}

TrueSpellings == Spellings(Str_true) \cup Spellings(Str_yes) \cup Spellings(Str_on)
FalseSpellings == Spellings(Str_false) \cup Spellings(Str_no) \cup Spellings(Str_off)

\* the literals of SpecLiteral: the keywords in every case, and others
Literals ==
    TrueSpellings \cup FalseSpellings \cup
    {<<"1">>, <<"0">>, <<"t", "r", "u">>, <<"o", "n", "n">>, <<"n", "o", "n">>,
     <<"y">>, <<"'", "o", "n", "'">>, <<"o", " ", "n">>, <<"4", "2">>, <<"x">>}

\* the numbers of SpecInteger
IntSamples ==
    (0 - MaxInt)..MaxInt \cup
    {INT_MIN, INT_MIN + 1, INT_MAX, INT_MAX - 1, 1000000000, -1000000000,
     999999999, -999999999, 2147483639, -2147483640, 12345, -907}

\* value = v, v being what parse_value did
Parsed(v) ==
    IF v = Aborted
    THEN vop' = "aborted" /\ value' = value
    ELSE vop' = (IF vop = "written" THEN "reparsed" ELSE "parsed") /\ value' = v

\* value = parse_value(literal)
ParseLiteral ==
    /\ vop # "aborted"
    /\ \E ub \in UBOutcomes : Parsed(parse_value(literal, ub))
    /\ result' = NoResult
    /\ UNCHANGED <<parser_vars, literal, number>>

\* value = Value(literal): the text is held as Text
HoldText ==
    /\ vop # "aborted"
    /\ value' = StringValue(literal)
    /\ vop' = "text"
    /\ result' = NoResult
    /\ UNCHANGED <<parser_vars, literal, number>>

\* write_value(out, value): the literal the writer emits for value
WriteValue ==
    /\ vop # "aborted"
    /\ literal' = write_value(value)
    /\ vop' = "written"
    /\ result' = NoResult
    /\ UNCHANGED <<parser_vars, number, value>>

\* value.as_bool()
AsBool ==
    /\ vop # "aborted"
    /\ result' = <<"as_bool", as_bool(value)>>
    /\ UNCHANGED <<parser_vars, literal, number, value, vop>>

\* value.as_int()
AsInt ==
    /\ vop # "aborted"
    /\ \E cast \in CastOutcomes : result' = <<"as_int", as_int(value, cast)>>
    /\ UNCHANGED <<parser_vars, literal, number, value, vop>>

\* a literal of Literals, to be parsed or held as Text
InitLiteral ==
    /\ InitParser
    /\ literal \in Literals
    /\ number = 0
    /\ value = StringValue(<<>>)
    /\ result = NoResult
    /\ vop = "new"

NextLiteral == ParseLiteral \/ HoldText \/ AsBool

SpecLiteral == InitLiteral /\ [][NextLiteral]_vars

\* Value(number) and the decimal rendering std::to_string(number)
InitInteger ==
    /\ InitParser
    /\ number \in IntSamples
    /\ literal = to_string_int(number)
    /\ value = IntValue(number)
    /\ result = NoResult
    /\ vop = "new"

NextInteger == ParseLiteral \/ WriteValue \/ AsInt

SpecInteger == InitInteger /\ [][NextInteger]_vars

\* ------------------------------------------------------------------------
\* the lines of an input, as the format describes them
\* ------------------------------------------------------------------------

\* the lines of text after comment stripping and trimming
CleanLines(text) ==
    LET raw == getline_all(remove_multiline_comments(text), "\n")
    IN [i \in 1..Len(raw) |-> trim(remove_line_comments(raw[i]))]

IsHeaderLine(l) == l # <<>> /\ l[1] = "^"
IsAssignLine(l) == l # <<>> /\ l[1] # "^"
HasEquals(l) == \E i \in 1..Len(l) : l[i] = "="
FirstEquals(l) == SetMin({i \in 1..Len(l) : l[i] = "="})
KeyText(l) == trim(SubSeq(l, 1, FirstEquals(l) - 1))
ValueText(l) == trim(SubSeq(l, FirstEquals(l) + 1, Len(l)))
HeaderDepth(l) == count_carets(l)
HeaderName(l) == trim(SubSeq(l, HeaderDepth(l) + 1, Len(l)))

\* an assignment line without '=' or with an empty key
Malformed(l) == IsAssignLine(l) /\ (~HasEquals(l) \/ KeyText(l) = <<>>)

\* the index of the last header line before line i, 0 when there is none
LastHeaderBefore(L, i) ==
    LET hs == {j \in 1..(i - 1) : IsHeaderLine(L[j])}
    IN IF hs = {} THEN 0 ELSE SetMax(hs)

\* the index of the last header line of depth d before line i, 0 when none
LastHeaderOfDepthBefore(L, i, d) ==
    LET hs == {j \in 1..(i - 1) : IsHeaderLine(L[j]) /\ HeaderDepth(L[j]) = d}
    IN IF hs = {} THEN 0 ELSE SetMax(hs)

\* the depth of the last header before line i, 0 before any header
DepthBefore(L, i) ==
    IF LastHeaderBefore(L, i) = 0 THEN 0 ELSE HeaderDepth(L[LastHeaderBefore(L, i)])

\* no header is more than one level deeper than the header before it
Contiguous(L) ==
    \A i \in 1..Len(L) : IsHeaderLine(L[i]) => HeaderDepth(L[i]) <= DepthBefore(L, i) + 1

\* the names of the most recent headers of depth 1 .. n before line i,
\* n the depth of the last header before line i
MostRecentHeaderPath(L, i) ==
    [d \in 1..DepthBefore(L, i) |-> HeaderName(L[LastHeaderOfDepthBefore(L, i, d)])]

\* the open sections after lines 1 .. i when a header of depth d closes the
\* sections deeper than d - 1 and opens its own under the deepest one left
RECURSIVE OpenSections(_, _)
OpenSections(L, i) ==
    IF i = 0 THEN <<>>
    ELSE LET prev == OpenSections(L, i - 1)
             d == HeaderDepth(L[i])
         IN IF ~IsHeaderLine(L[i]) THEN prev
            ELSE Append(SubSeq(prev, 1, IF d - 1 < Len(prev) THEN d - 1 ELSE Len(prev)),
                        HeaderName(L[i]))

\* some header is more than one level deeper than the open sections
HasDepthSkip(L) ==
    \E i \in 1..Len(L) : IsHeaderLine(L[i]) /\ HeaderDepth(L[i]) - 1 > Len(OpenSections(L, i - 1))

\* the lines the last parse_string call went through without a fault
Completed(L) == IF status = "ok" THEN Len(L) ELSE line_number - 1

\* the assignment lines the last parse_string call stored
StoredLines(L) == {i \in 1..Completed(L) : IsAssignLine(L[i])}

\* the tree holds exactly the stored assignment lines of L, line i in the
\* section at Path[i]
TreeIsStoredAt(L, Path) ==
    LET stored == StoredLines(L)
    IN /\ DOMAIN root = {<<>>} \cup UNION {Prefixes(Path[i]) : i \in stored}
       /\ \A p \in DOMAIN root :
             DOMAIN root[p] = {KeyText(L[i]) : i \in {j \in stored : Path[j] = p}}
       /\ \A i \in stored :
             (\A j \in stored : j > i => ~(Path[j] = Path[i] /\ KeyText(L[j]) = KeyText(L[i])))
             => root[Path[i]][KeyText(L[i])] = parse_value(ValueText(L[i]), "reads_nul")

\* the first malformed line of L, 0 when there is none
FirstMalformed(L) ==
    LET bad == {i \in 1..Len(L) : Malformed(L[i])}
    IN IF bad = {} THEN 0 ELSE SetMin(bad)

\* a new parse_string call before its first line
FreshParse == ParseState(EmptyRoot, <<>>, 0, "running", "none")

\* ------------------------------------------------------------------------
\* comments, as the format describes them
\* ------------------------------------------------------------------------

\* the indices of text, from i on, that no block comment covers: a comment
\* runs from a "/*" through the next "*/", or to the end without one
RECURSIVE SurvivingIndices(_, _)
SurvivingIndices(text, i) ==
    IF i > Len(text) THEN <<>>
    ELSE IF text[i] = "/" /\ i + 1 <= Len(text) /\ text[i + 1] = "*"
    THEN LET closes == {j \in (i + 2)..(Len(text) - 1) : text[j] = "*" /\ text[j + 1] = "/"}
         IN IF closes = {} THEN <<>> ELSE SurvivingIndices(text, SetMin(closes) + 2)
    ELSE <<i>> \o SurvivingIndices(text, i + 1)

\* text with its block comments deleted
DeleteBlockComments(text) ==
    LET idx == SurvivingIndices(text, 1) IN [k \in 1..Len(idx) |-> text[idx[k]]]

\* text, from i on, with everything from a "//" to the end of its line deleted
RECURSIVE DeleteLineComments(_, _)
DeleteLineComments(text, i) ==
    IF i > Len(text) THEN <<>>
    ELSE IF text[i] = "/" /\ i + 1 <= Len(text) /\ text[i + 1] = "/"
    THEN LET ends == {j \in i..Len(text) : text[j] = "\n"}
         IN IF ends = {} THEN <<>> ELSE DeleteLineComments(text, SetMin(ends))
    ELSE <<text[i]>> \o DeleteLineComments(text, i + 1)

\* text with block comments, then line comments, deleted
DeleteComments(text) == DeleteLineComments(DeleteBlockComments(text), 1)

\* the physical line of text that holds the first character of the n-th
\* line left after the block comments are deleted
PhysicalLine(text, n) ==
    LET idx == SurvivingIndices(text, 1)
        raw == getline_all(DeleteBlockComments(text), "\n")
        RECURSIVE StartOf(_)
        StartOf(j) == IF j = 1 THEN 1 ELSE StartOf(j - 1) + Len(raw[j - 1]) + 1
        first == idx[StartOf(n) - 1
                     + first_or_end(raw[n], {j \in 1..Len(raw[n]) :
                                                raw[n][j] \notin Whitespace})]
    IN 1 + Cardinality({j \in 1..(first - 1) : text[j] = "\n"})

\* ------------------------------------------------------------------------
\* claims
\* ------------------------------------------------------------------------

\* no Text value in v holds a quote or a comment-marker character
RECURSIVE PlainTexts(_)
PlainTexts(v) ==
    IF is_string(v) THEN \A i \in 1..Len(v[2]) : v[2][i] \notin {"'", "\"", "/", "*"}
    ELSE IF is_array(v) THEN \A i \in 1..Len(v[2]) : PlainTexts(v[2][i])
    ELSE TRUE

\* every Text value of the tree is plain
PlainTree(tree) == \A p \in DOMAIN tree : \A k \in DOMAIN tree[p] : PlainTexts(tree[p][k])

\* C1: parsing the text write_string returned for a tree whose Text values
\* hold no quote or comment-marker character succeeds and gives that tree
\* back: the same sections, keys and values.
C1_RoundTrip ==
    [][(op = "written" /\ op' = "reparsed" /\ PlainTree(root))
        => (status' = "ok" /\ root' = root)]_vars

\* C2: in an input whose headers never skip a level, every assignment line
\* is stored in the section named by the most recent headers of depth
\* 1 .. n, n the depth of the last header (the root before any header).
C2_NestingByDepthStack ==
    (op = "parsed" /\ status \in {"ok", "error"} /\ Contiguous(CleanLines(content)))
    => LET L == CleanLines(content)
       IN TreeIsStoredAt(L, [i \in 1..Len(L) |-> MostRecentHeaderPath(L, i)])

\* C2 witness: a depth-1 header, a deeper one, then a depth-1 header of
\* another name and a stored assignment: the property is in the section the
\* later depth-1 header names, and the tree has no section of the earlier
\* name
C2_Witness ==
    /\ op = "parsed" /\ status = "ok" /\ Contiguous(CleanLines(content))
    /\ LET L == CleanLines(content)
       IN \E g, i, j, h \in 1..Len(L) :
             /\ g < i /\ i < j /\ j < h
             /\ IsHeaderLine(L[g]) /\ HeaderDepth(L[g]) = 1
             /\ IsHeaderLine(L[i]) /\ HeaderDepth(L[i]) = 2
             /\ IsHeaderLine(L[j]) /\ HeaderDepth(L[j]) = 1
             /\ HeaderName(L[j]) # HeaderName(L[g])
             /\ IsAssignLine(L[h]) /\ LastHeaderBefore(L, h) = j
             /\ <<HeaderName(L[j])>> \in DOMAIN root
             /\ KeyText(L[h]) \in DOMAIN root[<<HeaderName(L[j])>>]
             /\ <<HeaderName(L[g])>> \notin DOMAIN root

\* C3: a header that skips levels is accepted and its section is a direct
\* child of the deepest open section; no section is put in between.
C3_DepthSkipNestsDirectly ==
    (op = "parsed" /\ status \in {"ok", "error"} /\ HasDepthSkip(CleanLines(content)))
    => LET L == CleanLines(content)
       IN /\ (status = "error" => Malformed(L[line_number]))
          /\ TreeIsStoredAt(L, [i \in 1..Len(L) |-> OpenSections(L, i - 1)])

\* C4: the first malformed assignment line makes parse_string throw a
\* ParseError there; the tree is the one the lines before it give, whatever
\* follows (a process that aborted on an earlier line never reaches it).
C4_MalformedAborts ==
    (op = "parsed" /\ FirstMalformed(CleanLines(content)) # 0)
    => LET L == CleanLines(content)
           f == FirstMalformed(L)
       IN \/ /\ status = "error"
             /\ line_number = f
             /\ what = (IF HasEquals(L[f]) THEN "Empty key" ELSE "Invalid line format")
             /\ root = parse_lines(FreshParse, SubSeq(L, 1, f - 1), 1, "reads_nul").root
          \/ status = "aborted" /\ line_number < f

\* C4 witness: a fault with stored lines before it and an assignment after it
C4_Witness ==
    /\ op = "parsed" /\ status = "error" /\ root # EmptyRoot
    /\ LET L == CleanLines(content)
       IN \E i \in (line_number + 1)..Len(L) : IsAssignLine(L[i]) /\ ~Malformed(L[i])

\* C5: the line number of a ParseError is the index of the faulty physical
\* line in the input text, block comments before it included.
C5_ErrorLineIsPhysicalLine ==
    (op = "parsed" /\ status = "error") => line_number = PhysicalLine(content, line_number)

\* C6: after a parse_string call that threw, the tree is empty.
C6_FailedParseLeavesEmptyTree ==
    (op \in {"parsed", "reparsed"} /\ status = "error") => root = EmptyRoot

\* C7: after a successful parse_string(t), whatever came before, the tree is
\* the one a new Parser holds after parse_string(t).
C7_ParseReplacesTree ==
    (op \in {"parsed", "reparsed"} /\ status = "ok")
    => root = parse_string(EmptyRoot, content, "reads_nul").root

\* C7 witness: a successful parse on a Parser whose last written text shows
\* a different, earlier tree
C7_Witness ==
    /\ op = "parsed" /\ status = "ok" /\ root # EmptyRoot /\ out # <<>>
    /\ \A order \in MapOrders(root) : out # write_string(root, order)

\* C8: parse_string gives what the line loop gives on the text with its
\* block comments, then its line comments, deleted: the same tree, the
\* same outcome and, when it throws, the same error and line.
C8_CommentStripping ==
    op = "parsed"
    => LET r == parse_lines(FreshParse, getline_all(DeleteComments(content), "\n"), 1,
                            IF status = "aborted" THEN "aborts" ELSE "reads_nul")
       IN /\ root = r.root /\ status = r.status
          /\ (status = "error" => line_number = r.line_number /\ what = r.what)

\* C8 witness: the example, parsed to exactly k = 1 and m = 2 in the root
C8_Witness ==
    /\ op = "parsed" /\ content = CommentExample /\ status = "ok"
    /\ root = [p \in {<<>>} |->
                 [k \in {<<"k">>, <<"m">>} |-> IF k = <<"k">> THEN IntValue(1) ELSE IntValue(2)]]

\* C9: an unquoted true/yes/on in any letter case parses to Boolean(true)
\* and false/no/off to Boolean(false), and as_bool() yields that truth
\* value, also when the same spelling is held as Text.
C9_BooleanKeywords ==
    /\ (vop = "parsed" /\ literal \in TrueSpellings) => value = BoolValue(TRUE)
    /\ (vop = "parsed" /\ literal \in FalseSpellings) => value = BoolValue(FALSE)
    /\ (vop \in {"parsed", "text"} /\ result[1] = "as_bool")
       => /\ literal \in TrueSpellings => result[2] = Returns(TRUE)
          /\ literal \in FalseSpellings => result[2] = Returns(FALSE)

\* C9 witness: a mixed-case keyword parsed and coerced
C9_Witness ==
    /\ vop = "parsed" /\ literal = <<"O", "f", "F">>
    /\ value = BoolValue(FALSE) /\ result = <<"as_bool", Returns(FALSE)>>

\* C10: the decimal rendering of an int, and the writer's rendering of its
\* Integer value, parse to the Integer of that int, and as_int() returns it.
C10_IntegerLiterals ==
    /\ vop \in {"parsed", "reparsed"} => (is_int(value) /\ value = IntValue(number))
    /\ (vop \in {"parsed", "reparsed"} /\ result[1] = "as_int") => result[2] = Returns(number)

\* C10 witness: the least int, written, parsed again and read
C10_Witness ==
    /\ vop = "reparsed" /\ number = INT_MIN /\ literal[1] = "-" /\ Len(literal) = 11
    /\ result = <<"as_int", Returns(INT_MIN)>>

\* ------------------------------------------------------------------------
\* numeric literals
\* ------------------------------------------------------------------------

\* the longest literal of SpecNumber made of NumChars, in characters
MaxNumChars == 4

\* the characters the literals of SpecNumber are made of
NumChars == {"1", "2", ".", "e", "-", "x"}

\* literals at and beyond the ends of the int range, and the malformed
\* numbers and double forms of the format's documentation
Str_12abc == <<"1", "2", "a", "b", "c">>
Str_1_2_3 == <<"1", ".", "2", ".", "3">>
Str_1e_5 == <<"1", "e", "-", "5">>
Str_3_14 == <<"3", ".", "1", "4">>
Str_m2_5 == <<"-", "2", ".", "5">>
Str_over == <<"2", "1", "4", "7", "4", "8", "3", "6", "4", "8">>
Str_under == <<"-", "2", "1", "4", "7", "4", "8", "3", "6", "4", "9">>
Str_long == <<"9", "9", "9", "9", "9", "9", "9", "9", "9", "9", "9">>

\* literals std::stoi and std::stod take otherwise than a decimal number
\* written in full: after a form feed or a vertical tab, hexadecimal, "inf",
\* out of range
Str_ff_12 == <<"\f", "1", "2">>
Str_vt_12 == <<"", "1", "2">>
Str_0x1_8 == <<"0", "x", "1", ".", "8">>
Str_inf == <<"i", "n", "f", ".">>
Str_1_e999 == <<"1", ".", "e", "9", "9", "9">>

\* every text of 1 .. MaxNumChars characters of NumChars, and the others
NumberLiterals ==
    UNION {[1..n -> NumChars] : n \in 1..MaxNumChars}
    \cup {Str_12abc, Str_1_2_3, Str_1e_5, Str_3_14, Str_m2_5, Str_over, Str_under,
          Str_long, to_string_int(INT_MAX), to_string_int(INT_MIN),
          Str_ff_12, Str_vt_12, Str_0x1_8, Str_inf, Str_1_e999}

\* a literal of NumberLiterals, to be parsed or held as Text
InitNumber ==
    /\ InitParser
    /\ literal \in NumberLiterals
    /\ number = 0
    /\ value = StringValue(<<>>)
    /\ result = NoResult
    /\ vop = "new"

SpecNumber == InitNumber /\ [][NextLiteral]_vars

\* t without its sign character, if it starts with one
Unsigned(t) == IF t # <<>> /\ t[1] \in {"+", "-"} THEN Tail(t) ELSE t

\* t is a run of one or more decimal digits
IsDigitText(t) == t # <<>> /\ \A i \in 1..Len(t) : t[i] \in Digits

\* the digit run t without its leading zeros
RECURSIVE StripZeros(_)
StripZeros(t) == IF Len(t) > 1 /\ t[1] = "0" THEN StripZeros(Tail(t)) ELSE t

\* the digit runs a and b have the same length and a is at most b as a number
RECURSIVE DigitsLeq(_, _)
DigitsLeq(a, b) ==
    IF a = <<>> THEN TRUE
    ELSE IF DigitVal(a[1]) # DigitVal(b[1]) THEN DigitVal(a[1]) < DigitVal(b[1])
    ELSE DigitsLeq(Tail(a), Tail(b))

\* the magnitude written by the digit run t is at most that written by limit
MagnitudeAtMost(t, limit) ==
    LET d == StripZeros(t)
    IN Len(d) < Len(limit) \/ (Len(d) = Len(limit) /\ DigitsLeq(d, limit))

\* t is, as a whole, an integer literal whose value an int holds
IsIntegerLiteral(t) ==
    /\ IsDigitText(Unsigned(t))
    /\ IF t[1] = "-" THEN MagnitudeAtMost(Unsigned(t), Unsigned(to_string_int(INT_MIN)))
       ELSE MagnitudeAtMost(Unsigned(t), to_string_int(INT_MAX))

\* m is digits with one '.' among them: "1.5", "1.", ".5"
IsPointMantissa(m) ==
    \E i \in 1..Len(m) :
        /\ m[i] = "."
        /\ Len(m) > 1
        /\ \A j \in 1..Len(m) : j # i => m[j] \in Digits

\* x is an exponent part: 'e' or 'E', an optional sign, digits
IsExponent(x) == Len(x) >= 2 /\ x[1] \in {"e", "E"} /\ IsDigitText(Unsigned(Tail(x)))

\* t is, as a whole, a decimal literal with a '.', with or without an exponent
IsRealLiteral(t) ==
    LET u == Unsigned(t)
    IN \/ IsPointMantissa(u)
       \/ \E i \in 2..Len(u) : IsPointMantissa(SubSeq(u, 1, i - 1)) /\ IsExponent(Tail_from(u, i))

\* t is a bare literal: not empty, not quoted, not bracketed, no keyword
IsBare(t) ==
    /\ t # <<>>
    /\ ~(t[1] = "'" /\ t[Len(t)] = "'")
    /\ ~(t[1] = "\"" /\ t[Len(t)] = "\"")
    /\ ~(t[1] = "[" /\ t[Len(t)] = "]")
    /\ t \notin TrueSpellings \cup FalseSpellings

\* C11: a bare literal parses to Integer or Real only when the whole of it
\* is a well-formed number in range (with a '.' a Real, without one an
\* Integer); any other bare literal parses to Text equal to the literal.
C11_NumericFallThrough ==
    (vop = "parsed" /\ IsBare(trim(literal)))
    => LET t == trim(literal)
           wellFormed == IF find(t, <<".">>, 1) # npos THEN IsRealLiteral(t)
                         ELSE IsIntegerLiteral(t)
       IN /\ (is_int(value) \/ is_double(value)) => wellFormed
          /\ ~wellFormed => value = StringValue(t)

\* t is digits followed by an exponent part, without a '.': "1e-5"
IsExponentLiteral(t) ==
    LET u == Unsigned(t)
    IN \E i \in 2..Len(u) : IsDigitText(SubSeq(u, 1, i - 1)) /\ IsExponent(Tail_from(u, i))

\* C12: a literal in one of the double forms (a decimal with a '.', or
\* digits with an exponent and no '.', such as 1e-5) parses to a Real:
\* is_double() is true and is_int() is false.
C12_DoubleForms ==
    (vop = "parsed" /\ (IsRealLiteral(literal) \/ IsExponentLiteral(literal)))
    => (is_double(value) /\ ~is_int(value))

\* ------------------------------------------------------------------------
\* array literals
\* ------------------------------------------------------------------------

\* the longest text between the brackets of a literal of SpecArray made of
\* ArrayChars, in characters
MaxArrayChars == 4

\* the characters the array literals of SpecArray are made of
ArrayChars == {",", " ", "1", "o", "n", "'", "[", "]"}

\* the array examples of the format: mixed variants, nested arrays, a
\* comma inside quotes
Str_mixed ==
    <<"[", "1", ",", " ", "'", "t", "w", "o", "'", ",", " ", "t", "r", "u", "e", "]">>
Str_nested ==
    <<"[", "[", "1", ",", " ", "2", "]", ",", " ", "[", "3", "]", "]">>
Str_quoted_comma ==
    <<"[", "'", "a", ",", "b", "'", ",", " ", "'", "c", "'", "]">>

\* '[' body ']' for every body of at most MaxArrayChars characters of
\* ArrayChars, and the examples
ArrayLiterals ==
    {<<"[">> \o body \o <<"]">> : body \in UNION {[1..n -> ArrayChars] : n \in 0..MaxArrayChars}}
    \cup {Str_mixed, Str_nested, Str_quoted_comma}

\* a literal of ArrayLiterals, to be parsed
InitArray ==
    /\ InitParser
    /\ literal \in ArrayLiterals
    /\ number = 0
    /\ value = StringValue(<<>>)
    /\ result = NoResult
    /\ vop = "new"

\* value.as_array()
AsArray ==
    /\ vop # "aborted"
    /\ result' = <<"as_array", as_array(value)>>
    /\ UNCHANGED <<parser_vars, literal, number, value, vop>>

NextArray == ParseLiteral \/ AsArray

SpecArray == InitArray /\ [][NextArray]_vars

\* the pieces of text between its occurrences of the character c
RECURSIVE Segments(_, _)
Segments(text, c) ==
    LET cs == {i \in 1..Len(text) : text[i] = c}
    IN IF cs = {} THEN <<text>>
       ELSE <<SubSeq(text, 1, SetMin(cs) - 1)>> \o Segments(Tail_from(text, SetMin(cs) + 1), c)

\* t is written between '[' and ']'
IsBracketed(t) == Len(t) >= 2 /\ t[1] = "[" /\ t[Len(t)] = "]"

\* the trimmed non-empty segments between the commas of the bracketed t
Elements(t) ==
    LET segs == Segments(SubSeq(t, 2, Len(t) - 1), ",")
        trimmed == [i \in 1..Len(segs) |-> trim(segs[i])]
    IN SelectSeq(trimmed, LAMBDA s : s # <<>>)

\* s has no bracket in it, and no quote except as its two delimiters
IsFlatElement(s) ==
    /\ \A i \in 1..Len(s) : s[i] \notin {"[", "]"}
    /\ \A i \in 2..(Len(s) - 1) : s[i] \notin {"'", "\""}
    /\ (s[1] \in {"'", "\""} \/ s[Len(s)] \in {"'", "\""}) => (Len(s) >= 2 /\ s[1] = s[Len(s)])

\* every element of the bracketed t is flat
IsFlatArray(t) == \A i \in 1..Len(Elements(t)) : IsFlatElement(Elements(t)[i])

\* C13: a bracketed literal whose elements have no bracket and no quote
\* inside them parses to the Array of its trimmed non-empty segments in
\* written order, each parsed by the literal rules on its own; as_array()
\* returns these elements.
C13_FlatArrays ==
    (vop = "parsed" /\ IsBracketed(trim(literal)) /\ IsFlatArray(trim(literal)))
    => LET es == Elements(trim(literal))
           expected == [i \in 1..Len(es) |-> parse_value(es[i], "reads_nul")]
       IN /\ value = ArrayValue(expected)
          /\ result[1] = "as_array" => result[2] = Returns(expected)

\* C13 witness: [1, 'two', true] parsed to Integer, Text, Boolean in that
\* order and read with as_array()
C13_Witness ==
    /\ vop = "parsed" /\ literal = Str_mixed
    /\ value = ArrayValue(<<IntValue(1), StringValue(<<"t", "w", "o">>), BoolValue(TRUE)>>)
    /\ result = <<"as_array", Returns(value[2])>>

\* C13 witness: doubled and trailing commas and blanks give no element
C13_WitnessEmptySegments ==
    /\ vop = "parsed" /\ literal = <<"[", "1", ",", ",", " ", "]">>
    /\ value = ArrayValue(<<IntValue(1)>>)

\* the number of positions before i at which text holds the character c
CountBefore(text, i, c) == Cardinality({j \in 1..(i - 1) : text[j] = c})

\* the commas of text that lie outside every '[...]' and every quoted part
TopLevelCommas(text) ==
    {i \in 1..Len(text) :
        /\ text[i] = ","
        /\ CountBefore(text, i, "[") = CountBefore(text, i, "]")
        /\ CountBefore(text, i, "'") % 2 = 0
        /\ CountBefore(text, i, "\"") % 2 = 0}

\* the brackets of text are nested properly and its quotes are paired
IsBalanced(text) ==
    /\ \A i \in 1..(Len(text) + 1) : CountBefore(text, i, "[") >= CountBefore(text, i, "]")
    /\ CountBefore(text, Len(text) + 1, "[") = CountBefore(text, Len(text) + 1, "]")
    /\ CountBefore(text, Len(text) + 1, "'") % 2 = 0
    /\ CountBefore(text, Len(text) + 1, "\"") % 2 = 0

\* the pieces of text between the positions in cuts, from position from on
RECURSIVE CutAt(_, _, _)
CutAt(text, cuts, from) ==
    LET later == {i \in cuts : i >= from}
    IN IF later = {} THEN <<SubSeq(text, from, Len(text))>>
       ELSE <<SubSeq(text, from, SetMin(later) - 1)>> \o CutAt(text, cuts, SetMin(later) + 1)

\* the trimmed non-empty segments between the top-level commas of the
\* bracketed t
TopLevelElements(t) ==
    LET body == SubSeq(t, 2, Len(t) - 1)
        segs == CutAt(body, TopLevelCommas(body), 1)
        trimmed == [i \in 1..Len(segs) |-> trim(segs[i])]
    IN SelectSeq(trimmed, LAMBDA s : s # <<>>)

\* C14: a comma inside a nested '[...]' element or inside a quoted element
\* does not split the outer array: the elements of a bracketed literal are
\* its segments between the commas outside nested brackets and quotes, so
\* [[1, 2], [3]] parses to an Array of the two Arrays [1, 2] and [3], and
\* ['a,b', 'c'] to an Array of the two Text values a,b and c.
C14_NestedAndQuotedCommas ==
    /\ (vop = "parsed" /\ IsBracketed(trim(literal)) /\ IsBalanced(trim(literal)))
       => is_array(value) /\ Len(value[2]) = Len(TopLevelElements(trim(literal)))
    /\ (vop = "parsed" /\ literal = Str_nested)
       => value = ArrayValue(<<ArrayValue(<<IntValue(1), IntValue(2)>>),
                               ArrayValue(<<IntValue(3)>>)>>)
    /\ (vop = "parsed" /\ literal = Str_quoted_comma)
       => value = ArrayValue(<<StringValue(<<"a", ",", "b">>), StringValue(<<"c">>)>>)

\* ------------------------------------------------------------------------
\* coercion of Text
\* ------------------------------------------------------------------------

\* C15: as_bool() on a Text value returns true for true/yes/on/1 and false
\* for false/no/off/0 in any letter case, and raises an error for every
\* Text value that is none of these.
C15_TextToBoolean ==
    (vop \in {"parsed", "text"} /\ is_string(value) /\ result[1] = "as_bool")
    => IF value[2] \in TrueSpellings \cup {<<"1">>} THEN result[2] = Returns(TRUE)
       ELSE IF value[2] \in FalseSpellings \cup {<<"0">>} THEN result[2] = Returns(FALSE)
       ELSE ~result[2].ok

\* ------------------------------------------------------------------------
\* read-only lookups on a Section
\* ------------------------------------------------------------------------

\* the keys and child names looked up
LookupNames == {Key_k, Name_a, Name_b}

\* the lookup call on the section at path, and what it did
Lookup(call, path, name, outcome) ==
    /\ lookup' = <<call, path, name, outcome>>
    /\ op' = "looked_up"
    /\ UNCHANGED <<root, content, status, line_number, what, out, value_vars>>

\* section.has_value(key), a const member
HasValue ==
    \E path \in DOMAIN root, key \in LookupNames :
        Lookup("has_value", path, key, Returned(has_value(root, path, key)))

\* section.at(key), a const member
At ==
    \E path \in DOMAIN root, key \in LookupNames :
        Lookup("at", path, key, at(root, path, key))

\* section.has_section(name), a const member
HasSection ==
    \E path \in DOMAIN root, name \in LookupNames :
        Lookup("has_section", path, name, Returned(has_section(root, path, name)))

\* section.get_section(name), a const member
GetSection ==
    \E path \in DOMAIN root, name \in LookupNames :
        Lookup("get_section", path, name, get_section(root, path, name))

NextLookup == AssignValue \/ Subscript \/ CreateSection \/ Clear
              \/ HasValue \/ At \/ HasSection \/ GetSection

\* a tree built by assignments and section accesses, and looked up
SpecLookup == Init /\ [][NextLookup]_vars

\* C16: for a key absent from a section, has_value(key) returns false and
\* at(key) throws std::out_of_range; for an absent child name, has_section
\* returns false and get_section throws std::out_of_range; none of the four
\* calls changes the tree.
C16_MissingLookups ==
    [][op' = "looked_up"
       => /\ root' = root
          /\ (lookup'[1] = "has_value" /\ lookup'[3] \notin DOMAIN root[lookup'[2]])
             => lookup'[4] = Returned(FALSE)
          /\ (lookup'[1] = "at" /\ lookup'[3] \notin DOMAIN root[lookup'[2]])
             => lookup'[4][1] = "out_of_range"
          /\ (lookup'[1] = "has_section" /\ Append(lookup'[2], lookup'[3]) \notin DOMAIN root)
             => lookup'[4] = Returned(FALSE)
          /\ (lookup'[1] = "get_section" /\ Append(lookup'[2], lookup'[3]) \notin DOMAIN root)
             => lookup'[4][1] = "out_of_range"]_vars

\* C16 witness: at() on a key that section a does not hold threw
\* std::out_of_range, and a still has only its child b
C16_Witness ==
    /\ op = "looked_up"
    /\ lookup = <<"at", <<Name_a>>, Key_k, OutOfRange>>
    /\ DOMAIN root = {<<>>, <<Name_a>>, <<Name_a, Name_b>>}
    /\ root[<<Name_a>>] = NoValues

\* ------------------------------------------------------------------------
\* the writer
\* ------------------------------------------------------------------------

\* the texts write_string can return for tree, one for each iteration order
Serializations(tree) == {write_string(tree, order) : order \in MapOrders(tree)}

\* C17: when the text write_string returned is parsed, write_string on the
\* resulting tree returns that same text (the maps being iterated in the
\* order of the first call).
C17_SerializeIdempotent ==
    (op = "reparsed" /\ status = "ok") => out \in Serializations(root)

\* the lines of the text write_string returned
OutLines(text) == Segments(text, "\n")

\* C18: in the text write_string returns, the line before every section
\* header is blank; the one exception is the first top-level section of a
\* root without properties, whose header is the first line.  So with a
\* property and a child section in the root, a blank line separates the
\* root's last property from the first header.
C18_BlankBeforeHeader ==
    op = "written"
    => \A i \in 1..Len(OutLines(out)) :
          IsHeaderLine(trim(OutLines(out)[i]))
          => \/ i > 1 /\ trim(OutLines(out)[i - 1]) = <<>>
             \/ i = 1 /\ root[<<>>] = NoValues

\* ------------------------------------------------------------------------
\* the tree after a parse
\* ------------------------------------------------------------------------

\* C19: after a successful parse_string every section of the tree has a
\* non-empty name and every property key is non-empty.
C19_NonEmptyNames ==
    (op = "parsed" /\ status = "ok")
    => \A p \in DOMAIN root :
          /\ \A i \in 1..Len(p) : p[i] # <<>>
          /\ \A k \in DOMAIN root[p] : k # <<>>

\* C20: every parse_value call of parse_string receives text that is not
\* empty after trimming, so no call reaches front() on an empty string: the
\* call is never one whose outcome the language leaves open, and no build
\* aborts in it.
C20_ValueTextNonEmpty ==
    op = "parsed" => status # "aborted"

\* ------------------------------------------------------------------------
\* headers and the tree
\* ------------------------------------------------------------------------

\* the lines getline reads from the text of the last parse_string call
RawLines(text) == getline_all(remove_multiline_comments(text), "\n")

\* the parse_string loop after its first n lines
AfterLines(lines, n) ==
    parse_lines(FreshParse, SubSeq(lines, 1, n), 1, "reads_nul")

\* p is q or an ancestor of q
IsPrefixOf(p, q) == Len(p) <= Len(q) /\ SubSeq(q, 1, Len(p)) = p

\* C21: in a successful parse_string a header line leaves the tree as the
\* lines before it made it and only sets the depth stack, which then ends in
\* the header's name; every section of the tree is on the path the stack
\* addressed at some assignment line, so every section has a property or a
\* descendant with one.
C21_HeadersCreateNothing ==
    (op = "parsed" /\ status = "ok")
    => LET raw == RawLines(content)
           L == CleanLines(content)
       IN /\ AfterLines(raw, Len(raw)).root = root
          /\ \A i \in 1..Len(raw) :
                IsHeaderLine(L[i])
                => /\ AfterLines(raw, i).root = AfterLines(raw, i - 1).root
                   /\ AfterLines(raw, i).section_stack =
                          Append(resize(AfterLines(raw, i - 1).section_stack,
                                        HeaderDepth(L[i]) - 1),
                                 HeaderName(L[i]))
          /\ \A p \in DOMAIN root \ {<<>>} :
                /\ \E i \in 1..Len(raw) :
                      /\ IsAssignLine(L[i])
                      /\ IsPrefixOf(p, AfterLines(raw, i - 1).section_stack)
                /\ \E q \in DOMAIN root :
                      IsPrefixOf(p, q) /\ root[q] # NoValues

\* C21 witness: a successful parse whose text ends in a header naming a
\* section that no assignment line addressed, after an assignment stored
\* below another header: the tree holds the one and not the other
C21_Witness ==
    /\ op = "parsed" /\ status = "ok"
    /\ LET L == CleanLines(content)
       IN \E i, j, h \in 1..Len(L) :
             /\ i < j /\ j < h /\ h = Len(L)
             /\ IsHeaderLine(L[i]) /\ HeaderDepth(L[i]) = 1
             /\ IsAssignLine(L[j]) /\ LastHeaderBefore(L, j) = i
             /\ IsHeaderLine(L[h]) /\ HeaderDepth(L[h]) = 2
             /\ <<HeaderName(L[i])>> \in DOMAIN root
             /\ root[<<HeaderName(L[i])>>] # NoValues
             /\ <<HeaderName(L[i]), HeaderName(L[h])>> \notin DOMAIN root

====
